---- MODULE Spec2Model ----
(***************************************************************************)
(* JSON-RPC 2.0 calculator server: ParseMessage / ParseSingleMessage (the  *)
(* message model), JSONRPCServer.HandleRequest and its helpers, and the    *)
(* Calculator the server dispatches to.  One call of HandleRequest is one  *)
(* behaviour: Init chooses the request body, the actions are the steps of  *)
(* HandleRequest on it.                                                    *)
(***************************************************************************)
EXTENDS Integers, Sequences, FiniteSets, TLC

\* Longest batch (number of array elements) in the request bodies explored.
MaxBatch == 2

\* Largest finite float64 magnitude, scaled down (math.MaxFloat64 in Go):
\* a sum or product beyond it is +Inf/-Inf, a number literal beyond it does
\* not decode.
MaxFloat64 == 1000

JSONRPCVersion == "2.0"

ParseError == -32700
InvalidRequest == -32600
MethodNotFound == -32601
InvalidParams == -32602
InternalError == -32603
\* The application error code Calculator.Divide uses for b = 0.
DivisionByZero == -32000

--------------------------------------------------------------------------
(* JSON values on the wire.  A key of an object is either absent or holds  *)
(* a value; both are records of one shape: t is the JSON type ("absent"    *)
(* for a missing key), n the number, s the string.                         *)

Absent == [t |-> "absent", n |-> 0, s |-> ""]
JNull == [t |-> "null", n |-> 0, s |-> ""]
JNum(x) == [t |-> "number", n |-> x, s |-> ""]
JStr(x) == [t |-> "string", n |-> 0, s |-> x]

\* The "params" member: absent, null, an array, or an object with the
\* members a, b and message (each absent or a JSON value).
NoParams == [t |-> "absent", a |-> Absent, b |-> Absent, message |-> Absent]
NullParams == [t |-> "null", a |-> Absent, b |-> Absent, message |-> Absent]
ArrayParams == [t |-> "array", a |-> Absent, b |-> Absent, message |-> Absent]
ObjParams(a, b, m) == [t |-> "object", a |-> a, b |-> b, message |-> m]

(* A JSON text: lead is the whitespace before its first token, k its kind: *)
(*   "object"   an object with the members jsonrpc, method, params, id     *)
(*   "array"    a well-formed array of the texts in items                  *)
(*   "number"   a number, "null" the literal null                          *)
(*   "badarray" text that starts with '[' and is not well-formed JSON      *)
(*   "garbage"  any other text that is not well-formed JSON                *)
(*   "empty"    no bytes at all                                            *)
Doc(lead, k, items, v, m, p, i) ==
    [lead |-> lead, k |-> k, items |-> items,
     jsonrpc |-> v, method |-> m, params |-> p, id |-> i]

ObjectDoc(v, m, p, i) == Doc("", "object", <<>>, v, m, p, i)
PlainDoc(k) == Doc("", k, <<>>, Absent, Absent, NoParams, Absent)
ArrayDoc(items) == Doc("", "array", items, Absent, Absent, NoParams, Absent)
WithLead(d, lead) == [d EXCEPT !.lead = lead]

\* data[0], the first byte of a non-empty text.
FirstByte(d) ==
    IF d.lead # "" THEN " "
    ELSE CASE d.k \in {"array", "badarray"} -> "["
           [] d.k = "object" -> "{"
           [] d.k = "number" -> "1"
           [] d.k = "null" -> "n"
           [] OTHER -> "x"

WellFormed(d) == d.k \in {"object", "array", "number", "null"}

--------------------------------------------------------------------------
(* Go values.                                                              *)

\* error: nil, a *JSONRPCError (code, message, data) or any other error.
NilErr == [t |-> "nil", code |-> 0, message |-> "", data |-> ""]
RPCError(code, message, data) ==
    [t |-> "jsonrpc", code |-> code, message |-> message, data |-> data]
PlainError(text) == [t |-> "plain", code |-> 0, message |-> text, data |-> ""]

\* interface{} holding nil, a float64 (n/d; d = 1 but for a quotient), an
\* infinity (n is its sign), a string or a map.
GoNil == [t |-> "nil", n |-> 0, d |-> 1, s |-> ""]
GoFloat(n, d) == [t |-> "float64", n |-> n, d |-> d, s |-> ""]
GoInf(sign) == [t |-> "inf", n |-> sign, d |-> 1, s |-> ""]
GoString(s) == [t |-> "string", n |-> 0, d |-> 1, s |-> s]
GoMap == [t |-> "map", n |-> 0, d |-> 1, s |-> ""]

\* The float64 nearest to the real number x.
Float64(x) ==
    IF x > MaxFloat64 THEN GoInf(1)
    ELSE IF x < -MaxFloat64 THEN GoInf(-1)
    ELSE GoFloat(x, 1)

\* json.Unmarshal of a JSON value into an interface{}: [ok, v].
DecodeValue(j) ==
    CASE j.t = "number" ->
           IF j.n > MaxFloat64 \/ j.n < -MaxFloat64
           THEN [ok |-> FALSE, v |-> GoNil]
           ELSE [ok |-> TRUE, v |-> GoFloat(j.n, 1)]
      [] j.t = "string" -> [ok |-> TRUE, v |-> GoString(j.s)]
      [] OTHER -> [ok |-> TRUE, v |-> GoNil]

\* params as an interface{}: nil, a map (members kept as JSON values, each
\* number of which is in float64 range) or a slice.
NilParams == [t |-> "nil", a |-> Absent, b |-> Absent, message |-> Absent]

DecodeParams(p) ==
    CASE p.t \in {"absent", "null"} -> [ok |-> TRUE, v |-> NilParams]
      [] p.t = "array" -> [ok |-> TRUE, v |-> [p EXCEPT !.t = "slice"]]
      [] OTHER ->
           [ok |-> \A f \in {p.a, p.b, p.message} : DecodeValue(f).ok,
            v |-> [p EXCEPT !.t = "map"]]

\* JSONRPCRequest and JSONRPCNotification; a notification has no ID field.
NoID == [t |-> "none", n |-> 0, d |-> 1, s |-> ""]
JSONRPCRequest(method, params, id) ==
    [kind |-> "request", jsonrpc |-> JSONRPCVersion, method |-> method,
     params |-> params, id |-> id]
JSONRPCNotification(method, params) ==
    [kind |-> "notification", jsonrpc |-> JSONRPCVersion, method |-> method,
     params |-> params, id |-> NoID]

\* JSONRPCResponse.
CreateSuccessResponse(result, id) ==
    [jsonrpc |-> JSONRPCVersion, result |-> result, error |-> NilErr, id |-> id]

CreateErrorResponse_NilID(err, id) ==
    [jsonrpc |-> JSONRPCVersion, result |-> GoNil, error |-> err, id |-> GoNil]

CreateErrorResponse(err, id) ==
    [jsonrpc |-> JSONRPCVersion, result |-> GoNil, error |-> err, id |-> id]

--------------------------------------------------------------------------
(* The parser.                                                             *)

\* A parse result of one message: err is NilErr and msg the message, or err
\* is the *JSONRPCError and msg is unused.
NoMessage == JSONRPCNotification("", NilParams)
Parsed(msg) == [err |-> NilErr, msg |-> msg]
Failed(err) == [err |-> err, msg |-> NoMessage]

\* json.Unmarshal of a member into a Go string field: the string, "" for a
\* missing or null member; any other JSON type is an UnmarshalTypeError.
StringFieldOK(j) == j.t \in {"absent", "null", "string"}
StringField(j) == IF j.t = "string" THEN j.s ELSE ""

\* json.Unmarshal of a member into the *json.RawMessage field ID: the
\* pointer stays nil for a missing member and is set to nil by a JSON null.
IDPointerNil(j) == j.t \in {"absent", "null"}

\* The fields of the struct raw after json.Unmarshal(data, &raw); the text
\* null leaves every field at its zero value.
RawOf(d) ==
    IF d.k = "null"
    THEN [JSONRPC |-> "", Method |-> "", Params |-> NoParams, ID |-> Absent]
    ELSE [JSONRPC |-> StringField(d.jsonrpc), Method |-> StringField(d.method),
          Params |-> d.params, ID |-> d.id]

UnmarshalRawOK(d) ==
    \/ d.k = "null"
    \/ d.k = "object" /\ StringFieldOK(d.jsonrpc) /\ StringFieldOK(d.method)

\* The error for a text json.Unmarshal cannot store into raw: a syntax
\* error, or a value of the wrong JSON type.
UnmarshalFailure(d) ==
    RPCError(ParseError, "Parse error",
             IF WellFormed(d) THEN "json: cannot unmarshal"
                              ELSE "json: syntax error")

\* ParseSingleMessage after json.Unmarshal(data, &raw) succeeded.
ValidateRaw(raw) ==
    LET params == DecodeParams(raw.Params)
        id == DecodeValue(raw.ID)
    IN  IF raw.JSONRPC # JSONRPCVersion
        THEN Failed(RPCError(InvalidRequest, "Invalid Request",
                             "jsonrpc field must be '2.0'"))
        ELSE IF raw.Method = ""
        THEN Failed(RPCError(InvalidRequest, "Invalid Request",
                             "method field is required"))
        ELSE IF ~params.ok
        THEN Failed(RPCError(InvalidRequest, "Invalid Request",
                             "Invalid params field"))
        ELSE IF ~IDPointerNil(raw.ID)
        THEN IF ~id.ok
             THEN Failed(RPCError(InvalidRequest, "Invalid Request",
                                  "Invalid ID field"))
             ELSE Parsed(JSONRPCRequest(raw.Method, params.v, id.v))
        ELSE Parsed(JSONRPCNotification(raw.Method, params.v))

ParseSingleMessage_SyntaxErrorAsInvalidRequest(d) ==
    IF ~UnmarshalRawOK(d)
    THEN Failed(RPCError(InvalidRequest, "Invalid Request", "json error"))
    ELSE ValidateRaw(RawOf(d))

ParseSingleMessage(d) ==
    IF ~UnmarshalRawOK(d)
    THEN Failed(UnmarshalFailure(d))
    ELSE ValidateRaw(RawOf(d))

RECURSIVE ParseElements_SkipsFailing(_)
ParseElements_SkipsFailing(items) ==
    IF items = <<>> THEN [err |-> NilErr, msgs |-> <<>>]
    ELSE LET one == ParseSingleMessage(Head(items))
             rest == ParseElements_SkipsFailing(Tail(items))
         IN  IF one.err # NilErr THEN rest
             ELSE [err |-> NilErr, msgs |-> <<one.msg>> \o rest.msgs]

\* The loop of ParseMessage over the elements of a batch: the messages, or
\* the error of the first element that fails.
RECURSIVE ParseElements(_)
ParseElements(items) ==
    IF items = <<>> THEN [err |-> NilErr, msgs |-> <<>>]
    ELSE LET one == ParseSingleMessage(Head(items))
         IN  IF one.err # NilErr THEN [err |-> one.err, msgs |-> <<>>]
             ELSE LET rest == ParseElements(Tail(items))
                  IN  IF rest.err # NilErr THEN rest
                      ELSE [err |-> NilErr, msgs |-> <<one.msg>> \o rest.msgs]

\* The branch ParseMessage takes: the batch branch when data[0] is '['.
TakesBatchBranch(d) == d.k # "empty" /\ FirstByte(d) = "["

(* ParseMessage: err, and on success kind ("batch", "request" or           *)
(* "notification") with the messages in msgs (one for a single message).   *)
ParseMessage(d) ==
    IF TakesBatchBranch(d)
    THEN IF d.k # "array"
         THEN [err |-> RPCError(ParseError, "Parse error", "json: syntax error"),
               kind |-> "none", msgs |-> <<>>]
         ELSE LET all == ParseElements(d.items)
              IN  IF all.err # NilErr
                  THEN [err |-> all.err, kind |-> "none", msgs |-> <<>>]
                  ELSE [err |-> NilErr, kind |-> "batch", msgs |-> all.msgs]
    ELSE LET one == ParseSingleMessage(d)
         IN  IF one.err # NilErr
             THEN [err |-> one.err, kind |-> "none", msgs |-> <<>>]
             ELSE [err |-> NilErr, kind |-> one.msg.kind, msgs |-> <<one.msg>>]

--------------------------------------------------------------------------
(* The state of one call of HandleRequest.                                 *)

VARIABLES
    calculator,  \* JSONRPCServer.calculator: the Calculator in use
    data,        \* the request body handed to HandleRequest
    pc,          \* "parse", "dispatch" or "done"
    message,     \* what ParseMessage returned
    idx,         \* the batch element handleBatchRequest's loop is at
    responses,   \* the JSONRPCResponse values built so far
    origin,      \* for each of them, the index of the message it answers
    calls,       \* the Calculator methods invoked so far: [at, op]
    out          \* what HandleRequest returned

vars == <<calculator, data, pc, message, idx, responses, origin, calls, out>>

--------------------------------------------------------------------------
(* The Calculator.                                                         *)

\* A method's two results; err is NilErr on success.
Returns(result, err) == [result |-> result, err |-> err]

Add(p) == Returns(Float64(p.A + p.B), NilErr)
Subtract(p) == Returns(Float64(p.A - p.B), NilErr)
Multiply(p) == Returns(Float64(p.A * p.B), NilErr)

Divide(p) ==
    IF p.B = 0
    THEN Returns(GoFloat(0, 1),
                 RPCError(DivisionByZero, "Division by zero",
                          "Cannot divide " \o ToString(p.A) \o " by zero"))
    ELSE IF p.A % p.B = 0 THEN Returns(GoFloat(p.A \div p.B, 1), NilErr)
    ELSE Returns(GoFloat(p.A, p.B), NilErr)

GetInfo == Returns(GoMap, NilErr)

CalculatorMethod(methodName, p) ==
    CASE methodName = "Add" -> Add(p)
      [] methodName = "Subtract" -> Subtract(p)
      [] methodName = "Multiply" -> Multiply(p)
      [] methodName = "Divide" -> Divide(p)

\* method.Call of the method MethodByName finds on s.calculator.  The
\* repository's Calculator is the only one NewJSONRPCServer installs;
\* "CheckedCalculator" stands for a Calculator that reports a result out of
\* float64 range as an ordinary error (errors.New), the kind of error no
\* method of the repository's Calculator returns (see SpecAnyCalculator).
Call(methodName, p) ==
    LET r == CalculatorMethod(methodName, p)
    IN  IF calculator = "CheckedCalculator" /\ r.result.t = "inf"
        THEN Returns(GoFloat(0, 1), PlainError("result out of range"))
        ELSE r

--------------------------------------------------------------------------
(* The dispatcher.                                                         *)

\* What callMethod returns, with the Calculator methods it invoked.
Outcome(result, err, ops) == [result |-> result, err |-> err, ops |-> ops]

\* json.Unmarshal(paramBytes, &calcParams): a and b must be numbers where
\* present (null leaves the field 0); params must be an object.
CalculatorParamsOK(params) ==
    /\ params.t = "map"
    /\ params.a.t \in {"absent", "null", "number"}
    /\ params.b.t \in {"absent", "null", "number"}

CalculatorParams(params) ==
    [A |-> IF params.a.t = "number" THEN params.a.n ELSE 0,
     B |-> IF params.b.t = "number" THEN params.b.n ELSE 0]

\* json.Unmarshal(paramBytes, &logParams).
LogParamsOK(params) ==
    /\ params.t = "map"
    /\ params.message.t \in {"absent", "null", "string"}

\* json.Marshal of params decoded from JSON cannot fail, MethodByName finds
\* each of the four names callMethod passes, and each method has two
\* results: the three error returns for those cases are never taken.
callCalculatorMethod(methodName, params) ==
    IF params.t = "nil"
    THEN Outcome(GoNil, RPCError(InvalidParams, "Invalid params",
                 "Parameters required: {\"a\": number, \"b\": number}"), <<>>)
    ELSE IF ~CalculatorParamsOK(params)
    THEN Outcome(GoNil, RPCError(InvalidParams, "Invalid params",
                 "Expected parameters: {\"a\": number, \"b\": number}"), <<>>)
    ELSE LET results == Call(methodName, CalculatorParams(params))
         IN  IF results.err # NilErr
             THEN Outcome(GoNil, results.err, <<methodName>>)
             ELSE Outcome(results.result, NilErr, <<methodName>>)

callNotificationMethod(methodName, params) ==
    IF methodName = "Log"
    THEN IF params.t = "nil"
         THEN Outcome(GoNil, RPCError(InvalidParams, "Invalid params",
                      "Parameters required: {\"message\": string}"), <<>>)
         ELSE IF ~LogParamsOK(params)
         THEN Outcome(GoNil, RPCError(InvalidParams, "Invalid params",
                      "Expected parameters: {\"message\": string}"), <<>>)
         ELSE Outcome(GoNil, NilErr, <<"Log">>)
    ELSE Outcome(GoNil, RPCError(MethodNotFound, "Method not found",
                 "Notification method '" \o methodName \o "' is not available"),
                 <<>>)

\* The method names callMethod's switch has a case for.
RegisteredMethods == {"add", "subtract", "multiply", "divide", "getInfo", "log"}

callMethod_LogCaseMissing(method, params) ==
    CASE method = "add" -> callCalculatorMethod("Add", params)
      [] method = "subtract" -> callCalculatorMethod("Subtract", params)
      [] method = "multiply" -> callCalculatorMethod("Multiply", params)
      [] method = "divide" -> callCalculatorMethod("Divide", params)
      [] method = "getInfo" -> Outcome(GetInfo.result, GetInfo.err, <<"GetInfo">>)
      [] OTHER ->
           Outcome(GoNil, RPCError(MethodNotFound, "Method not found",
                   "Method '" \o method \o "' is not available"), <<>>)

callMethod(method, params) ==
    CASE method = "add" -> callCalculatorMethod("Add", params)
      [] method = "subtract" -> callCalculatorMethod("Subtract", params)
      [] method = "multiply" -> callCalculatorMethod("Multiply", params)
      [] method = "divide" -> callCalculatorMethod("Divide", params)
      [] method = "getInfo" -> Outcome(GetInfo.result, GetInfo.err, <<"GetInfo">>)
      [] method = "log" -> callNotificationMethod("Log", params)
      [] OTHER ->
           Outcome(GoNil, RPCError(MethodNotFound, "Method not found",
                   "Method '" \o method \o "' is not available"), <<>>)

\* handleSingleRequest: the response, and the Calculator methods invoked.
Handled(resp, ops) == [resp |-> resp, ops |-> ops]

handleSingleRequest_WrapsEveryError(req) ==
    LET r == callMethod(req.method, req.params)
    IN  IF r.err # NilErr
        THEN Handled(CreateErrorResponse(
                         RPCError(InternalError, "Internal error",
                                  r.err.message), req.id), r.ops)
        ELSE Handled(CreateSuccessResponse(r.result, req.id), r.ops)

handleSingleRequest(req) ==
    LET r == callMethod(req.method, req.params)
    IN  IF r.err # NilErr
        THEN IF r.err.t = "jsonrpc"
             THEN Handled(CreateErrorResponse(r.err, req.id), r.ops)
             ELSE Handled(CreateErrorResponse(
                              RPCError(InternalError, "Internal error",
                                       r.err.message), req.id), r.ops)
        ELSE Handled(CreateSuccessResponse(r.result, req.id), r.ops)

\* handleNotification: the Calculator methods invoked; result and error of
\* callMethod are dropped.
handleNotification(notif) == callMethod(notif.method, notif.params).ops

--------------------------------------------------------------------------
(* json.Marshal of responses.                                              *)

\* The id member: always written; a nil ID is null.
EncodeID(id) ==
    CASE id.t = "float64" -> JNum(id.n)
      [] id.t = "string" -> JStr(id.s)
      [] OTHER -> JNull

\* A float64 that is +Inf or -Inf has no JSON form: json.Marshal fails.
Marshalable(r) == r.result.t # "inf"

\* The JSON object of a response: "result" and "error" are omitempty, so
\* each is written only when the field is not nil.
Encode(r) ==
    [jsonrpc |-> r.jsonrpc,
     hasResult |-> r.result # GoNil, result |-> r.result,
     hasError |-> r.error # NilErr, error |-> r.error,
     id |-> EncodeID(r.id)]

RECURSIVE EncodeAll(_)
EncodeAll(rs) ==
    IF rs = <<>> THEN <<>> ELSE <<Encode(Head(rs))>> \o EncodeAll(Tail(rs))

\* What HandleRequest returns: nothing yet ("pending"), (nil, nil) "none",
\* the bytes of one response "object" or of an array of them "array", or
\* (nil, err) of a failed json.Marshal "error".
Pending == [kind |-> "pending", items |-> <<>>]
NoResponse == [kind |-> "none", items |-> <<>>]
MarshalError == [kind |-> "error", items |-> <<>>]

MarshalOne(r) ==
    IF Marshalable(r) THEN [kind |-> "object", items |-> <<Encode(r)>>]
    ELSE MarshalError

MarshalAll(rs) ==
    IF \A k \in 1..Len(rs) : Marshalable(rs[k])
    THEN [kind |-> "array", items |-> EncodeAll(rs)]
    ELSE MarshalError

--------------------------------------------------------------------------
(* The request bodies explored.                                            *)

Methods == {"multiply", "divide", "log", "foo"}

ParamsSet ==
    {NoParams,
     ObjParams(JNum(6), JNum(0), Absent),
     ObjParams(JNum(MaxFloat64), JNum(2), JStr("hi"))}

Ids == {Absent, JNull, JNum(1), JStr("1")}

\* Objects that pass the validation of ParseSingleMessage.
ValidObjects ==
    {ObjectDoc(JStr("2.0"), JStr(m), p, i) : m \in Methods, p \in ParamsSet, i \in Ids}

\* Texts that are well-formed JSON and fail in ParseSingleMessage.
InvalidElements ==
    {ObjectDoc(JStr("1.0"), JStr("add"), ObjParams(JNum(6), JNum(0), Absent), JNum(1)),
     ObjectDoc(JStr("2.0"), Absent, NoParams, JNum(1)),
     ObjectDoc(JNum(2), JStr("add"), NoParams, JNum(1)),
     ObjectDoc(JStr("2.0"), JStr("add"), NoParams, JNum(2 * MaxFloat64)),
     ObjectDoc(JStr("2.0"), JStr("add"),
               ObjParams(JNum(2 * MaxFloat64), JNum(0), Absent), JNum(1)),
     PlainDoc("number"),
     PlainDoc("null")}

\* More valid requests: params of the wrong shape, and the methods the
\* product above leaves out.
WrongParams == ObjParams(JStr("x"), JNum(2), JNum(7))

MoreObjects ==
    {ObjectDoc(JStr("2.0"), JStr(c[1]), c[2], JNum(2)) :
        c \in {<<"add", ObjParams(JNum(6), JNum(0), Absent)>>,
               <<"subtract", ObjParams(JNum(0), JNum(6), Absent)>>,
               <<"getInfo", NoParams>>,
               <<"add", WrongParams>>,
               <<"add", ArrayParams>>,
               <<"log", WrongParams>>,
               <<"divide", NullParams>>}}

Elements == ValidObjects \cup MoreObjects \cup InvalidElements

Batches == UNION {[1..n -> Elements] : n \in 0..MaxBatch}

Texts ==
    Elements \cup {ArrayDoc(items) : items \in Batches}
             \cup {PlainDoc("badarray"), PlainDoc("garbage"), PlainDoc("empty")}

\* Whitespace in front of the first token: none, or a space.
Leads == {"", " "}

Inputs == {WithLead(d, lead) : d \in Texts, lead \in Leads}

--------------------------------------------------------------------------
(* HandleRequest, step by step.                                            *)

NotParsed == [err |-> NilErr, kind |-> "none", msgs |-> <<>>]

InitWith(calculators) ==
    /\ calculator \in calculators
    /\ data \in Inputs
    /\ pc = "parse"
    /\ message = NotParsed
    /\ idx = 1
    /\ responses = <<>>
    /\ origin = <<>>
    /\ calls = <<>>
    /\ out = Pending

\* NewJSONRPCServer: the server holds the repository's Calculator.
Init == InitWith({"Calculator"})

\* The Calculator methods ops, invoked for message number at.
Invoked(at, ops) == [k \in 1..Len(ops) |-> [at |-> at, op |-> ops[k]]]

\* ParseMessage fails: the error response with a nil ID is returned.
ParseFails ==
    /\ pc = "parse"
    /\ LET m == ParseMessage(data)
       IN  /\ m.err # NilErr
           /\ message' = m
           /\ out' = MarshalOne(CreateErrorResponse(m.err, GoNil))
    /\ pc' = "done"
    /\ UNCHANGED <<calculator, data, idx, responses, origin, calls>>

\* ParseMessage succeeds: on to the type switch.
ParseSucceeds ==
    /\ pc = "parse"
    /\ LET m == ParseMessage(data)
       IN  /\ m.err = NilErr
           /\ message' = m
    /\ pc' = "dispatch"
    /\ UNCHANGED <<calculator, data, idx, responses, origin, calls, out>>

\* The type switch: ParseMessage returns a []interface{}, a JSONRPCRequest
\* or a JSONRPCNotification and nothing else, so its default case is never
\* taken.
\* case JSONRPCRequest.
SingleRequest ==
    /\ pc = "dispatch"
    /\ message.kind = "request"
    /\ LET h == handleSingleRequest(message.msgs[1])
       IN  /\ responses' = <<h.resp>>
           /\ origin' = <<1>>
           /\ calls' = calls \o Invoked(1, h.ops)
           /\ out' = MarshalOne(h.resp)
    /\ pc' = "done"
    /\ UNCHANGED <<calculator, data, message, idx>>

\* case JSONRPCNotification.
SingleNotification ==
    /\ pc = "dispatch"
    /\ message.kind = "notification"
    /\ calls' = calls \o Invoked(1, handleNotification(message.msgs[1]))
    /\ out' = NoResponse
    /\ pc' = "done"
    /\ UNCHANGED <<calculator, data, message, idx, responses, origin>>

\* One pass of handleBatchRequest's loop, over a request.
BatchRequest ==
    /\ pc = "dispatch"
    /\ message.kind = "batch"
    /\ idx <= Len(message.msgs)
    /\ message.msgs[idx].kind = "request"
    /\ LET h == handleSingleRequest(message.msgs[idx])
       IN  /\ responses' = Append(responses, h.resp)
           /\ origin' = Append(origin, idx)
           /\ calls' = calls \o Invoked(idx, h.ops)
    /\ idx' = idx + 1
    /\ UNCHANGED <<calculator, data, pc, message, out>>

BatchNotification_Answers ==
    /\ pc = "dispatch"
    /\ message.kind = "batch"
    /\ idx <= Len(message.msgs)
    /\ message.msgs[idx].kind = "notification"
    /\ LET h == handleSingleRequest(message.msgs[idx])
       IN  /\ responses' = Append(responses, h.resp)
           /\ origin' = Append(origin, idx)
           /\ calls' = calls \o Invoked(idx, h.ops)
    /\ idx' = idx + 1
    /\ UNCHANGED <<calculator, data, pc, message, out>>

\* One pass of the loop, over a notification.
BatchNotification ==
    /\ pc = "dispatch"
    /\ message.kind = "batch"
    /\ idx <= Len(message.msgs)
    /\ message.msgs[idx].kind = "notification"
    /\ calls' = calls \o Invoked(idx, handleNotification(message.msgs[idx]))
    /\ idx' = idx + 1
    /\ UNCHANGED <<calculator, data, pc, message, responses, origin, out>>

\* After the loop: nothing when no response was collected, else the array.
BatchReturn ==
    /\ pc = "dispatch"
    /\ message.kind = "batch"
    /\ idx > Len(message.msgs)
    /\ out' = IF Len(responses) = 0 THEN NoResponse ELSE MarshalAll(responses)
    /\ pc' = "done"
    /\ UNCHANGED <<calculator, data, message, idx, responses, origin, calls>>

Next ==
    \/ ParseFails
    \/ ParseSucceeds
    \/ SingleRequest
    \/ SingleNotification
    \/ BatchRequest
    \/ BatchNotification
    \/ BatchReturn

Spec == Init /\ [][Next]_vars

\* The same server over either Calculator: the repository's, or one whose
\* methods can fail with an error that is no *JSONRPCError.
InitAnyCalculator == InitWith({"Calculator", "CheckedCalculator"})

SpecAnyCalculator == InitAnyCalculator /\ [][Next]_vars

--------------------------------------------------------------------------
(* Properties.                                                             *)

Done == pc = "done"
ParsedOK == pc # "parse" /\ message.err = NilErr
Answered == out.kind \in {"object", "array"}

\* The indexes of the requests among msgs, in order.
RequestIndexes(msgs) ==
    SelectSeq([k \in 1..Len(msgs) |-> k], LAMBDA k : msgs[k].kind = "request")

\* The Calculator methods invoked for message number at.
CallsFor(at) == {k \in 1..Len(calls) : calls[k].at = at}

\* C1: an input that parses to a Notification gets no response: a single
\* notification makes HandleRequest return nothing, and in a batch no
\* response is ever built for a notification element, so the array that is
\* returned holds entries for requests only, whatever callMethod returned
\* for the notification.
C1_NotificationGetsNoResponse ==
    ParsedOK =>
      /\ \A k \in 1..Len(responses) : message.msgs[origin[k]].kind = "request"
      /\ Done /\ message.kind = "notification" => out = NoResponse
      /\ Done /\ message.kind = "batch" /\ out.kind = "array" =>
             Len(out.items) = Len(RequestIndexes(message.msgs))

\* A finished batch with a request that was answered and a notification
\* whose handler failed.
C1_Witness ==
    /\ Done /\ message.kind = "batch" /\ out.kind = "array"
    /\ \E k \in 1..Len(message.msgs) :
         /\ message.msgs[k].kind = "notification"
         /\ callMethod(message.msgs[k].method, message.msgs[k].params).err # NilErr

\* C2: a valid message is a Request exactly when its object has an "id"
\* key, whatever the key's value (null included), and a Notification
\* exactly when the key is absent.
C2_IdKeyPresenceSelectsRequest ==
    ParsedOK /\ message.kind \in {"request", "notification"} /\ data.k = "object" =>
      (message.kind = "request" <=> data.id.t # "absent")

\* C3: every response built for a request carries the request's id, of the
\* same type and value, whether it holds a result or an error, for a single
\* request and for each request of a batch; so does its JSON form.
C3_ResponseEchoesRequestId ==
    ParsedOK =>
      /\ \A k \in 1..Len(responses) :
           responses[k].id = message.msgs[origin[k]].id
      /\ Answered =>
           \A k \in 1..Len(out.items) :
             out.items[k].id = EncodeID(message.msgs[origin[k]].id)

\* A batch answered with an error response and a success response whose ids
\* are of different types.
C3_Witness ==
    /\ Done /\ message.kind = "batch" /\ out.kind = "array"
    /\ \E j, k \in 1..Len(responses) :
         /\ responses[j].error # NilErr /\ responses[j].id.t = "string"
         /\ responses[k].error = NilErr /\ responses[k].id.t = "float64"

\* C4: a batch that parses gets an array with exactly one entry per request
\* and none per notification, the k-th entry answering the k-th request; a
\* batch without requests gets no response at all.
C4_BatchResponsesInRequestOrder ==
    Done /\ message.err = NilErr /\ message.kind = "batch" =>
      LET reqs == RequestIndexes(message.msgs)
      IN  IF Len(reqs) = 0 THEN out = NoResponse
          ELSE /\ out.kind = "array"
               /\ Len(out.items) = Len(reqs)
               /\ \A k \in 1..Len(reqs) :
                    out.items[k].id = EncodeID(message.msgs[reqs[k]].id)

\* C5: every response HandleRequest returns, alone or in an array, has
\* exactly one of the members result and error.
C5_ExactlyOneOfResultAndError ==
    Done /\ Answered =>
      \A k \in 1..Len(out.items) : out.items[k].hasResult # out.items[k].hasError

\* C6: when ParseMessage fails, HandleRequest returns one error response,
\* never nothing: its id is null, its error is the parser's, and for text
\* that is not well-formed JSON the code is -32700.
C6_ParseFailureAnswered ==
    Done /\ message.err # NilErr =>
      /\ out.kind = "object"
      /\ Len(out.items) = 1
      /\ out.items[1].id = JNull
      /\ out.items[1].hasError /\ ~out.items[1].hasResult
      /\ out.items[1].error = ParseMessage(data).err
      /\ ~WellFormed(data) => out.items[1].error.code = ParseError

\* Text that is not JSON was answered.
C6_Witness ==
    /\ Done /\ message.err # NilErr /\ data.k = "garbage"
    /\ out.kind = "object" /\ out.items[1].error.code = ParseError

\* C7: in a batch, an element that fails to parse fails alone: the response
\* is an array with an error entry for each such element and an entry for
\* each request among the others, never one error for the whole batch.
C7_BatchElementFailsAlone ==
    Done /\ TakesBatchBranch(data) /\ data.k = "array" =>
      LET failing == {k \in 1..Len(data.items) :
                        ParseSingleMessage(data.items[k]).err # NilErr}
          asking == {k \in 1..Len(data.items) :
                       /\ ParseSingleMessage(data.items[k]).err = NilErr
                       /\ ParseSingleMessage(data.items[k]).msg.kind = "request"}
      IN  failing # {} =>
            /\ out.kind = "array"
            /\ Len(out.items) = Cardinality(failing \cup asking)

\* C8: a request for a method callMethod has no case for is answered with
\* error -32601 and the request's id, and no Calculator method is invoked
\* for it; a request for a registered method is never answered -32601.
C8_UnknownMethodNotFound ==
    ParsedOK =>
      \A k \in 1..Len(responses) :
        LET req == message.msgs[origin[k]]
        IN  IF req.method \in RegisteredMethods
            THEN responses[k].error.code # MethodNotFound
            ELSE /\ responses[k].error.t = "jsonrpc"
                 /\ responses[k].error.code = MethodNotFound
                 /\ responses[k].result = GoNil
                 /\ responses[k].id = req.id
                 /\ CallsFor(origin[k]) = {}

\* A batch in which an unknown method was refused and a registered one ran.
C8_Witness ==
    /\ Done /\ message.kind = "batch" /\ out.kind = "array"
    /\ \E j, k \in 1..Len(responses) :
         /\ message.msgs[origin[j]].method \notin RegisteredMethods
         /\ responses[j].error.code = MethodNotFound
         /\ message.msgs[origin[k]].method \in RegisteredMethods
         /\ CallsFor(origin[k]) # {}

\* C9: the response to a request whose handler fails with a *JSONRPCError
\* carries that error unchanged and the request's id (divide with b = 0:
\* code -32000); when the handler fails with any other error, it carries
\* -32603 with the error's message as data.
C9_HandlerErrorMapping ==
    ParsedOK =>
      \A k \in 1..Len(responses) :
        LET req == message.msgs[origin[k]]
            r == callMethod(req.method, req.params)
        IN  /\ r.err.t = "jsonrpc" =>
                 responses[k].error = r.err /\ responses[k].id = req.id
            /\ r.err.t = "plain" =>
                 /\ responses[k].error.t = "jsonrpc"
                 /\ responses[k].error.code = InternalError
                 /\ responses[k].error.data = r.err.message
                 /\ responses[k].id = req.id
            /\ ( /\ req.method = "divide"
                 /\ req.params.t = "map"
                 /\ CalculatorParamsOK(req.params)
                 /\ CalculatorParams(req.params).B = 0 ) =>
                 responses[k].error.code = DivisionByZero

\* A batch with a division by zero and a handler failing with an ordinary
\* error, both answered.
C9_Witness ==
    /\ Done /\ message.kind = "batch" /\ out.kind = "array"
    /\ \E j, k \in 1..Len(responses) :
         /\ responses[j].error.code = DivisionByZero
         /\ callMethod(message.msgs[origin[k]].method,
                       message.msgs[origin[k]].params).err.t = "plain"
         /\ responses[k].error.code = InternalError

\* C10: ParseMessage takes the batch branch exactly when the first byte
\* that is not whitespace is '[', so whitespace in front of the text does
\* not change what it returns.
C10_BatchByFirstNonWhitespaceByte ==
    pc # "parse" =>
      /\ message = ParseMessage(WithLead(data, ""))
      /\ message.kind = "batch" <=>
           (data.k = "array" /\ ParseElements(data.items).err = NilErr)

\* The request body fails to parse or validate: a single message that
\* ParseSingleMessage refuses, or text starting with '[' that is no array or
\* has an element ParseSingleMessage refuses.
InputInvalid(d) ==
    IF TakesBatchBranch(d)
    THEN \/ d.k # "array"
         \/ \E k \in 1..Len(d.items) : ParseSingleMessage(d.items[k]).err # NilErr
    ELSE ParseSingleMessage(d).err # NilErr

\* C11: parsing of the whole input ends before any dispatch: for a request
\* body that fails to parse or validate, no handler is ever invoked and no
\* response is built for any element, the valid requests and notifications
\* in front of the failing element included; and nothing is dispatched
\* before ParseMessage has returned.
C11_NoDispatchWhenParseFails ==
    /\ pc = "parse" => calls = <<>> /\ responses = <<>> /\ idx = 1
    /\ InputInvalid(data) =>
         /\ calls = <<>> /\ responses = <<>> /\ idx = 1
         /\ pc # "dispatch"
         /\ Done => message.err # NilErr /\ out.kind = "object"

\* A finished batch whose first element is a valid request that would have
\* run a Calculator method and whose second element fails: nothing ran.
C11_Witness ==
    /\ Done /\ TakesBatchBranch(data) /\ data.k = "array" /\ Len(data.items) = 2
    /\ LET first == ParseSingleMessage(data.items[1])
       IN  /\ first.err = NilErr
           /\ first.msg.kind = "request"
           /\ callMethod(first.msg.method, first.msg.params).ops # <<>>
    /\ ParseSingleMessage(data.items[2]).err # NilErr
    /\ calls = <<>>
    /\ out.kind = "object"

====
